---- MODULE Spec2Model ----
(***************************************************************************)
(* Model of src/roomba_game.py: RoombaCleanupGame, a grid game in which a  *)
(* robot collects trash tiles while hazard ("poop") tiles are spawned by a *)
(* self-rescheduling timer callback.  Handlers run to completion on the    *)
(* single Tk event loop, so every handler is one atomic action.            *)
(***************************************************************************)
EXTENDS Integers, FiniteSets, Sequences, TLC

\* ---------------------------------------------------------------- bounds
\* The board of the program is 14 x 14 with 24 trash tiles; the model keeps
\* the code and scales the three class attributes down.
GRID_WIDTH == 2
GRID_HEIGHT == 2
STARTING_TRASH == 2

VARIABLES
    player,         \* self.player : Point
    trash,          \* self.trash  : set[Point]
    poop,           \* self.poop   : set[Point]
    game_over,      \* self.game_over
    victory,        \* self.victory
    status_var,     \* self.status_var (text shown in the label)
    startingTrash,  \* the value self.STARTING_TRASH reads
    pendingTicks,   \* number of poop_spawn_tick callbacks queued by root.after
    restarted,      \* history: restart() has run at least once
    spawns,         \* history: hazards added by ticks since __init__/restart
    lastEvent       \* history: which handler ran last, and its branch

vars == <<player, trash, poop, game_over, victory, status_var,
          startingTrash, pendingTicks, restarted, spawns, lastEvent>>

core == <<player, trash, poop, game_over, victory>>

\* ------------------------------------------------------------ data types
Point(x, y) == [x |-> x, y |-> y]

\* [Point(x, y) for x in range(GRID_WIDTH) for y in range(GRID_HEIGHT)]
AllCells == {Point(x, y) : x \in 0..(GRID_WIDTH - 1), y \in 0..(GRID_HEIGHT - 1)}

Center == Point(GRID_WIDTH \div 2, GRID_HEIGHT \div 2)

Min(a, b) == IF a < b THEN a ELSE b
Max(a, b) == IF a > b THEN a ELSE b

\* ------------------------------------------------------------ key input
Keysyms == {"Up", "Down", "Left", "Right", "w", "s", "a", "d",
            "W", "r", "R", "space"}

\* str.lower() on the key symbols the model feeds in
Lower(k) ==
    CASE k = "R" -> "r"
      [] k = "W" -> "w"
      [] k = "Up" -> "up"
      [] k = "Down" -> "down"
      [] k = "Left" -> "left"
      [] k = "Right" -> "right"
      [] OTHER -> k

NoDelta == [none |-> TRUE]

\* the dict `movement` and movement.get(event.keysym)
movement_WASDSwapped(k) ==
    CASE k = "Up"    -> Point(0, -1)
      [] k = "Down"  -> Point(0, 1)
      [] k = "Left"  -> Point(-1, 0)
      [] k = "Right" -> Point(1, 0)
      [] k = "w"     -> Point(0, 1)
      [] k = "s"     -> Point(0, -1)
      [] k = "a"     -> Point(-1, 0)
      [] k = "d"     -> Point(1, 0)
      [] OTHER       -> NoDelta

movement(k) ==
    CASE k = "Up"    -> Point(0, -1)
      [] k = "Down"  -> Point(0, 1)
      [] k = "Left"  -> Point(-1, 0)
      [] k = "Right" -> Point(1, 0)
      [] k = "w"     -> Point(0, -1)
      [] k = "s"     -> Point(0, 1)
      [] k = "a"     -> Point(-1, 0)
      [] k = "d"     -> Point(1, 0)
      [] OTHER       -> NoDelta

\* min(max(v, 0), hi)
Clamp_NoLowerBound(v, hi) == Min(v, hi)

Clamp_Wraps(v, hi) == v % (hi + 1)

Clamp(v, hi) == Min(Max(v, 0), hi)

next_pos(p, delta) ==
    Point(Clamp(p.x + delta.x, GRID_WIDTH - 1),
          Clamp(p.y + delta.y, GRID_HEIGHT - 1))

\* ---------------------------------------------------------- update_status
\* The text handed to status_var.set, as the sequence of its pieces: a fixed
\* message, or the f-string's literals and the two formatted lengths.
\* (variant: the terminal branch ignores self.victory)
update_status_NoVictoryBranch(go, v, t, h) ==
    IF go
    THEN <<"You hit poop. Game over! Press R to restart.">>
    ELSE <<"Trash remaining: ", Cardinality(t), " | Poop on floor: ", Cardinality(h)>>

update_status(go, v, t, h) ==
    IF go
    THEN IF v THEN <<"You cleaned everything! Press R to play again.">>
              ELSE <<"You hit poop. Game over! Press R to restart.">>
    ELSE <<"Trash remaining: ", Cardinality(t), " | Poop on floor: ", Cardinality(h)>>

\* --------------------------------------------------------- populate_trash
\* available = all cells minus the player's, shuffled; trash = the first
\* STARTING_TRASH of them.  A slice past the end of a list is not an error
\* in Python: it returns the whole list.
PopulateOutcomes_PlayerNotRemoved(p, n) ==
    {T \in SUBSET AllCells : Cardinality(T) = Min(n, Cardinality(AllCells))}

PopulateOutcomes(p, n) ==
    LET available == AllCells \ {p}
    IN  {T \in SUBSET available : Cardinality(T) = Min(n, Cardinality(available))}

\* ------------------------------------------------- trigger_game_over etc.
\* Result of resolve_player_tile as a record of the fields it may write.
\* (variants: the win branch forgets victory / skips the emptiness test /
\*  the trash branch forgets the removal / a hazard counts as a win /
\*  the trash branch clears the whole set)
resolve_player_tile_NoVictoryFlag(p, t, h, go, v) ==
    IF p \in h
    THEN [trash |-> t, game_over |-> TRUE, victory |-> FALSE]
    ELSE IF p \in t
         THEN IF t \ {p} = {}
              THEN [trash |-> t \ {p}, game_over |-> TRUE, victory |-> v]
              ELSE [trash |-> t \ {p}, game_over |-> go, victory |-> v]
         ELSE [trash |-> t, game_over |-> go, victory |-> v]

resolve_player_tile_NoEmptyCheck(p, t, h, go, v) ==
    IF p \in h
    THEN [trash |-> t, game_over |-> TRUE, victory |-> FALSE]
    ELSE IF p \in t
         THEN [trash |-> t \ {p}, game_over |-> TRUE, victory |-> TRUE]
         ELSE [trash |-> t, game_over |-> go, victory |-> v]

resolve_player_tile_NoRemove(p, t, h, go, v) ==
    IF p \in h
    THEN [trash |-> t, game_over |-> TRUE, victory |-> FALSE]
    ELSE IF p \in t
         THEN IF t = {}
              THEN [trash |-> t, game_over |-> TRUE, victory |-> TRUE]
              ELSE [trash |-> t, game_over |-> go, victory |-> v]
         ELSE [trash |-> t, game_over |-> go, victory |-> v]

resolve_player_tile_PoopWins(p, t, h, go, v) ==
    IF p \in h
    THEN [trash |-> t, game_over |-> TRUE, victory |-> TRUE]
    ELSE IF p \in t
         THEN IF t \ {p} = {}
              THEN [trash |-> t \ {p}, game_over |-> TRUE, victory |-> TRUE]
              ELSE [trash |-> t \ {p}, game_over |-> go, victory |-> v]
         ELSE [trash |-> t, game_over |-> go, victory |-> v]

resolve_player_tile_ClearsAll(p, t, h, go, v) ==
    IF p \in h
    THEN [trash |-> t, game_over |-> TRUE, victory |-> FALSE]
    ELSE IF p \in t
         THEN [trash |-> {}, game_over |-> TRUE, victory |-> TRUE]
         ELSE [trash |-> t, game_over |-> go, victory |-> v]

resolve_player_tile(p, t, h, go, v) ==
    IF p \in h
    THEN [trash |-> t, game_over |-> TRUE, victory |-> FALSE]
    ELSE IF p \in t
         THEN IF t \ {p} = {}
              THEN [trash |-> t \ {p}, game_over |-> TRUE, victory |-> TRUE]
              ELSE [trash |-> t \ {p}, game_over |-> go, victory |-> v]
         ELSE [trash |-> t, game_over |-> go, victory |-> v]

\* candidates of poop_spawn_tick
candidates_TrashNotExcluded(t, h) == {c \in AllCells : c \notin h}

candidates_PoopNotExcluded(t, h) == {c \in AllCells : c \notin t}

candidates(t, h) == {c \in AllCells : c \notin h /\ c \notin t}

\* ------------------------------------------------------------------ Init
InitWith(n) ==
    /\ startingTrash = n
    /\ player = Center
    /\ poop = {}
    /\ game_over = FALSE
    /\ victory = FALSE
    /\ trash \in PopulateOutcomes(player, n)
    /\ status_var = update_status(FALSE, FALSE, trash, {})
    /\ pendingTicks = 1
    /\ restarted = FALSE
    /\ spawns = 0
    /\ lastEvent = "init"

Init == InitWith(STARTING_TRASH)

\* --------------------------------------------------------------- restart
\* (variant: restart queues a spawn tick of its own)
restart_RearmsTimer ==
    /\ player' = Center
    /\ poop' = {}
    /\ game_over' = FALSE
    /\ victory' = FALSE
    /\ trash' \in PopulateOutcomes(player', startingTrash)
    /\ status_var' = update_status(FALSE, FALSE, trash', {})
    /\ restarted' = TRUE
    /\ spawns' = 0
    /\ lastEvent' = "restart"
    /\ pendingTicks' = pendingTicks + 1
    /\ UNCHANGED startingTrash

restart ==
    /\ player' = Center
    /\ poop' = {}
    /\ game_over' = FALSE
    /\ victory' = FALSE
    /\ trash' \in PopulateOutcomes(player', startingTrash)
    /\ status_var' = update_status(FALSE, FALSE, trash', {})
    /\ restarted' = TRUE
    /\ spawns' = 0
    /\ lastEvent' = "restart"
    /\ UNCHANGED <<startingTrash, pendingTicks>>

\* -------------------------------------------------------- handle_keypress
\* (variant: the restart key is tested before game_over)
handle_keypress_RestartAnytime(keysym) ==
    IF Lower(keysym) = "r"
    THEN restart
    ELSE IF game_over
    THEN IF FALSE
         THEN restart
         ELSE /\ lastEvent' = "key_ignored"
              /\ UNCHANGED <<core, status_var, startingTrash, pendingTicks, restarted, spawns>>
    ELSE LET delta == movement(keysym) IN
         IF delta = NoDelta
         THEN /\ lastEvent' = "key_ignored"
              /\ UNCHANGED <<core, status_var, startingTrash, pendingTicks, restarted, spawns>>
         ELSE LET np == next_pos(player, delta)
                  r  == resolve_player_tile(np, trash, poop, game_over, victory)
              IN  /\ player' = np
                  /\ trash' = r.trash
                  /\ game_over' = r.game_over
                  /\ victory' = r.victory
                  /\ status_var' = update_status(r.game_over, r.victory, r.trash, poop)
                  /\ lastEvent' = IF np \in poop THEN "move_poop"
                                  ELSE IF np \in trash THEN "move_trash"
                                  ELSE IF np = player THEN "move_clamped"
                                  ELSE "move_free"
                  /\ UNCHANGED <<poop, startingTrash, pendingTicks, restarted, spawns>>

handle_keypress(keysym) ==
    IF game_over
    THEN IF Lower(keysym) = "r"
         THEN restart
         ELSE /\ lastEvent' = "key_ignored"
              /\ UNCHANGED <<core, status_var, startingTrash, pendingTicks, restarted, spawns>>
    ELSE LET delta == movement(keysym) IN
         IF delta = NoDelta
         THEN /\ lastEvent' = "key_ignored"
              /\ UNCHANGED <<core, status_var, startingTrash, pendingTicks, restarted, spawns>>
         ELSE LET np == next_pos(player, delta)
                  r  == resolve_player_tile(np, trash, poop, game_over, victory)
              IN  /\ player' = np
                  /\ trash' = r.trash
                  /\ game_over' = r.game_over
                  /\ victory' = r.victory
                  /\ status_var' = update_status(r.game_over, r.victory, r.trash, poop)
                  /\ lastEvent' = IF np \in poop THEN "move_poop"
                                  ELSE IF np \in trash THEN "move_trash"
                                  ELSE IF np = player THEN "move_clamped"
                                  ELSE "move_free"
                  /\ UNCHANGED <<poop, startingTrash, pendingTicks, restarted, spawns>>

KeyPress == \E keysym \in Keysyms : handle_keypress(keysym)

\* ------------------------------------------------------- poop_spawn_tick
\* `not self.game_over and random.random() < self.POOP_SPAWN_CHANCE`;
\* draw is the outcome of the comparison
spawn_guard_NoGameOverCheck(go, draw) == draw

spawn_guard(go, draw) == ~go /\ draw

\* `if spawned == self.player`
hits_player_Never(spawned, p) == FALSE

hits_player(spawned, p) == spawned = p

\* root.after(...) is the last statement of the callback, outside the if:
\* n callbacks are queued before it, go is game_over at that point
Reschedule_NotWhenGameOver(n, go) == IF go THEN n ELSE n + 1

Reschedule(n, go) == n + 1

\* The running callback has left the queue (pendingTicks - 1) when it
\* queues its successor.
poop_spawn_tick(draw) ==
    /\ pendingTicks > 0
    /\ IF spawn_guard(game_over, draw)
       THEN LET cands == candidates(trash, poop) IN
            IF cands # {}
            THEN \E spawned \in cands :
                    /\ poop' = poop \cup {spawned}
                    /\ spawns' = spawns + 1
                    /\ IF hits_player(spawned, player)
                       THEN game_over' = TRUE /\ victory' = FALSE
                       ELSE UNCHANGED <<game_over, victory>>
                    /\ status_var' = update_status(game_over', victory', trash, poop')
                    /\ lastEvent' = "tick_spawn"
                    /\ UNCHANGED <<player, trash, startingTrash, restarted>>
            ELSE /\ status_var' = update_status(game_over, victory, trash, poop)
                 /\ lastEvent' = "tick_saturated"
                 /\ UNCHANGED <<core, startingTrash, restarted, spawns>>
       ELSE /\ lastEvent' = "tick_idle"
            /\ UNCHANGED <<core, status_var, startingTrash, restarted, spawns>>
    /\ pendingTicks' = Reschedule(pendingTicks - 1, game_over')

SpawnTick == \E draw \in BOOLEAN : poop_spawn_tick(draw)

Next == KeyPress \/ SpawnTick

Spec == Init /\ [][Next]_vars

\* The same program under every value of the class attribute STARTING_TRASH
\* from 0 to one more than the number of cells.
ConfigValues == 0..(Cardinality(AllCells) + 1)

InitConfig == \E n \in ConfigValues : InitWith(n)

SpecConfig == InitConfig /\ [][Next]_vars

\* The timer fires every POOP_SPAWN_INTERVAL_MS for as long as the window
\* lives and each draw succeeds with probability POOP_SPAWN_CHANCE > 0, so
\* during play a tick whose draw succeeds cannot be postponed forever.
SuccessfulSpawn == ~game_over /\ poop_spawn_tick(TRUE)

SpecLive == Init /\ [][Next]_vars /\ WF_vars(SuccessfulSpawn)

\* ================================================================ claims
MoveKeys == {k \in Keysyms : movement(k) # NoDelta}
RestartKeys == {k \in Keysyms : Lower(k) = "r"}
TickEvents == {"tick_spawn", "tick_saturated", "tick_idle"}
NumCells == Cardinality(AllCells)

\* C1: in every reachable state the trash set and the hazard (poop) set
\* are disjoint.
C1_TrashPoopDisjoint == trash \cap poop = {}

\* a hazard has just been spawned in a second game while trash remains
C1_Witness == lastEvent = "tick_spawn" /\ restarted /\ trash # {} /\ poop # {}

\* C2: in every reachable Lost state (game_over and not victory) the
\* player's cell is a hazard.
C2_LostOnHazard == (game_over /\ ~victory) => player \in poop

\* a loss caused by a hazard spawning onto the resting player
C2_Witness == game_over /\ ~victory /\ lastEvent = "tick_spawn" /\ player \in poop

\* C3: in every reachable state where victory is true, game_over is true
\* and no trash is left.
C3_VictoryMeansCleared == victory => (game_over /\ trash = {})

\* the move that picked up the last trash tile
C3_Witness == victory /\ lastEvent = "move_trash"

\* C4: in every reachable state the player is inside the grid:
\* 0 <= x < GRID_WIDTH and 0 <= y < GRID_HEIGHT.
C4_PlayerInBounds ==
    /\ 0 <= player.x /\ player.x < GRID_WIDTH
    /\ 0 <= player.y /\ player.y < GRID_HEIGHT

\* the player has moved into the corner (0, 0), where two directions clamp
C4_Witness ==
    /\ lastEvent \in {"move_free", "move_trash", "move_poop", "move_clamped"}
    /\ player = Point(0, 0)

\* C5: once game_over is true every step other than a restart key press
\* (r or R) leaves player, trash, poop, game_over and victory unchanged.
C5_TerminalFrozen ==
    [][game_over => (UNCHANGED core \/ \E k \in RestartKeys : handle_keypress(k))]_vars

\* a key was pressed in the Won state and the game is still Won
C5_Witness == game_over /\ victory /\ lastEvent = "key_ignored"

\* C6: initialization and restart never leave a running game whose trash
\* set was cut short because STARTING_TRASH exceeds the number of cells
\* minus one (they fail instead).
C6_NoSilentTruncation ==
    ~(/\ lastEvent \in {"init", "restart"}
      /\ startingTrash > NumCells - 1
      /\ Cardinality(trash) < startingTrash)

\* C7: the state a restart produces has game_over = victory = FALSE, the
\* player on the centre cell, no hazards, and exactly STARTING_TRASH trash
\* cells, all on the grid and none under the player.
C7_RestartFresh ==
    lastEvent = "restart" =>
        /\ ~game_over /\ ~victory
        /\ player = Point(GRID_WIDTH \div 2, GRID_HEIGHT \div 2)
        /\ poop = {}
        /\ trash \subseteq AllCells
        /\ Cardinality(trash) = STARTING_TRASH
        /\ player \notin trash

\* a restart has just run
C7_Witness == lastEvent = "restart" /\ restarted /\ trash # {}

\* C8: after every invocation of the spawn tick (spawning, idle because the
\* game is over or the draw failed, or saturated) a successor is queued.
C8_TickReschedules == lastEvent \in TickEvents => pendingTicks >= 1

\* after a restart a tick has added a hazard again
C8_Witness == restarted /\ lastEvent = "tick_spawn" /\ poop # {} /\ pendingTicks >= 1

\* C9: while playing, a move whose clamped destination is a trash tile and
\* not a hazard removes exactly that tile, leaves the hazards alone, and
\* ends the game as a win iff no trash is left; otherwise play goes on.
C9_MoveOntoTrash ==
    [][\A k \in MoveKeys :
         LET dest == next_pos(player, movement(k)) IN
         (~game_over /\ dest \in trash /\ dest \notin poop /\ handle_keypress(k))
         => /\ player' = dest
            /\ trash' = trash \ {dest}
            /\ poop' = poop
            /\ (game_over' /\ victory') <=> (trash' = {})
            /\ trash' # {} => (~game_over' /\ ~victory')]_vars

\* a trash tile was collected and play goes on
C9_Witness == lastEvent = "move_trash" /\ ~game_over /\ trash # {}

\* C10: while playing, a move whose clamped destination is a hazard puts
\* the player on that cell, sets game_over = TRUE and victory = FALSE, and
\* leaves trash and hazards unchanged.
C10_MoveOntoPoop ==
    [][\A k \in MoveKeys :
         LET dest == next_pos(player, movement(k)) IN
         (~game_over /\ dest \in poop /\ handle_keypress(k))
         => /\ player' = dest
            /\ game_over' /\ ~victory'
            /\ trash' = trash
            /\ poop' = poop]_vars

\* the player has just stepped onto a hazard
C10_Witness == lastEvent = "move_poop" /\ game_over /\ ~victory /\ player \in poop

\* C11: while playing, a tick that spawns a hazard on the player's cell
\* adds that cell to the hazards and sets game_over = TRUE, victory = FALSE
\* with player and trash unchanged; a tick that spawns on any other cell
\* leaves game_over FALSE.
C11_SpawnOntoPlayer ==
    [][(~game_over /\ poop' # poop /\ poop_spawn_tick(TRUE))
       => \E spawned \in AllCells \ (poop \cup trash) :
             /\ poop' = poop \cup {spawned}
             /\ player' = player
             /\ trash' = trash
             /\ IF spawned = player
                THEN game_over' /\ ~victory'
                ELSE ~game_over']_vars

\* a hazard has landed on the resting player while trash was left
C11_Witness ==
    /\ lastEvent = "tick_spawn"
    /\ player \in poop
    /\ game_over /\ ~victory
    /\ trash # {}
    /\ spawns = Cardinality(poop)

\* the tokens the movement table lists, written out
MovementTokens == {"Up", "Down", "Left", "Right", "w", "s", "a", "d"}

\* C12: while game_over is FALSE, the restart keys r and R and every other
\* key that is not a movement token leave player, trash, poop, game_over
\* and victory unchanged.
C12_NonMovementIgnoredWhilePlaying ==
    [][\A k \in Keysyms \ MovementTokens :
         (~game_over /\ handle_keypress(k)) => UNCHANGED core]_vars

\* a key was ignored during play
C12_Witness == lastEvent = "key_ignored" /\ ~game_over /\ poop # {}

\* C13: within one game the trash set never gains an element: every step
\* that is not a restart leaves trash unchanged or removes exactly the
\* cell the player has just moved onto.
C13_TrashOnlyShrinks ==
    [][lastEvent' # "restart"
       => \/ trash' = trash
          \/ /\ player' \in trash
             /\ trash' = trash \ {player'}
             /\ \E k \in MovementTokens : handle_keypress(k)]_vars

\* a tile was collected after hazards had appeared, one tile short of the
\* initial layout
C13_Witness ==
    /\ lastEvent = "move_trash"
    /\ poop # {}
    /\ Cardinality(trash) = STARTING_TRASH - 1

\* C14: for a player on a grid edge, a move directed off the grid leaves
\* the position unchanged, and the tile resolution is applied to that cell
\* as for any other move.
C14_ClampAtEdge ==
    [][\A k \in MovementTokens :
         LET d   == movement(k)
             raw == Point(player.x + d.x, player.y + d.y)
             r   == resolve_player_tile(player, trash, poop, game_over, victory)
         IN  (~game_over /\ raw \notin AllCells /\ handle_keypress(k))
             => /\ player' = player
                /\ trash' = r.trash
                /\ game_over' = r.game_over
                /\ victory' = r.victory
                /\ poop' = poop]_vars

\* a move off the grid was pressed in the corner (0, 0)
C14_Witness == lastEvent = "move_clamped" /\ player = Point(0, 0)

\* C15: from any Playing state a step is the effect of an arrow key exactly
\* when it is the effect of the matching WASD key, and the eight movement
\* tokens map to exactly the deltas (0,-1), (0,1), (-1,0), (1,0).
C15_ArrowsEqualWASD ==
    /\ movement("Up") = Point(0, -1) /\ movement("w") = Point(0, -1)
    /\ movement("Down") = Point(0, 1) /\ movement("s") = Point(0, 1)
    /\ movement("Left") = Point(-1, 0) /\ movement("a") = Point(-1, 0)
    /\ movement("Right") = Point(1, 0) /\ movement("d") = Point(1, 0)
    /\ {movement(k) : k \in MovementTokens}
         = {Point(0, -1), Point(0, 1), Point(-1, 0), Point(1, 0)}
    /\ [][~game_over =>
            /\ handle_keypress("Up") <=> handle_keypress("w")
            /\ handle_keypress("Down") <=> handle_keypress("s")
            /\ handle_keypress("Left") <=> handle_keypress("a")
            /\ handle_keypress("Right") <=> handle_keypress("d")]_vars

\* a movement key has taken the player off the centre cell
C15_Witness == lastEvent = "move_free" /\ ~game_over /\ player # Center

\* C17: after every handler the status text is the win message exactly when
\* game_over and victory hold, the loss message exactly when game_over holds
\* without victory, and otherwise the live string with the current numbers
\* of trash tiles and of hazards.
C17_StatusMatchesState ==
    /\ (status_var = <<"You cleaned everything! Press R to play again.">>)
         <=> (game_over /\ victory)
    /\ (status_var = <<"You hit poop. Game over! Press R to restart.">>)
         <=> (game_over /\ ~victory)
    /\ ~game_over =>
         status_var = <<"Trash remaining: ", Cardinality(trash),
                        " | Poop on floor: ", Cardinality(poop)>>

\* the win message is on display after the last tile was collected
C17_Witness ==
    /\ status_var = <<"You cleaned everything! Press R to play again.">>
    /\ lastEvent = "move_trash"
    /\ trash = {}

\* C18: while game_over is FALSE the player's cell is neither trash nor a
\* hazard, so the spawn candidates are never empty during play and the
\* saturated branch of the spawn tick is never taken.
C18_PlayerCellFree ==
    /\ ~game_over => (player \notin trash /\ player \notin poop)
    /\ ~game_over => candidates(trash, poop) # {}
    /\ lastEvent # "tick_saturated"

\* the player's cell was the only free one and a spawn on it ended the game
C18_Witness ==
    /\ lastEvent = "tick_spawn"
    /\ game_over
    /\ trash \cup poop = AllCells

\* C19: between handlers exactly one spawn-tick callback is queued: a tick
\* queues one successor, and neither restart nor a key press queues or
\* cancels one.
C19_OnePendingTick == pendingTicks = 1

\* a tick has run in a game that was started by restart
C19_Witness ==
    /\ restarted
    /\ lastEvent \in TickEvents
    /\ ~game_over
    /\ pendingTicks = 1

\* C20: under fair successful spawn ticks every game ends: from any Playing
\* state game_over eventually becomes true, and a game never sees more than
\* GRID_WIDTH * GRID_HEIGHT successful spawns, however the player moves.
C20_GameEventuallyEnds ==
    /\ [](spawns <= GRID_WIDTH * GRID_HEIGHT)
    /\ (~game_over ~> game_over)

\* a game ended by the spawn that filled the last cell not holding trash
C20_Witness ==
    /\ game_over /\ ~victory
    /\ lastEvent = "tick_spawn"
    /\ spawns = NumCells - Cardinality(trash)
    /\ spawns > 1

====
